---- MODULE Spec2Model ----
(***************************************************************************)
(* Model of the helper routines of Codebase Genius:                        *)
(*   build_file_tree, simple_parse_python, find_function_calls             *)
(*     (codebase-genius/utils/repo_utils.py)                               *)
(*   clone_repo (codebase-genius/py code/clone_repo.py)                    *)
(* Text is modelled as sequences of one-character strings, so that         *)
(* splitting, stripping, extension extraction and pattern matching are     *)
(* computed character by character, the way the library routines do.       *)
(***************************************************************************)
EXTENDS Integers, Sequences, FiniteSets, TLC

VARIABLES
    pc,             \* position of the running call
    content,        \* argument of simple_parse_python / find_function_calls
    function_name,  \* argument of find_function_calls
    calls,          \* find_function_calls: the returned list
    functions,      \* simple_parse_python: result['functions']
    classes,        \* simple_parse_python: result['classes']
    fs,             \* the directories on disk: path -> listing and permission
    contents,       \* the version of the bytes the files on disk hold
    stack,          \* os.walk: the directories still to visit
    file_tree,      \* build_file_tree: the mapping being built
    visit,          \* the directories os.walk has scanned in this call, in order
    scan_errors,    \* the directories whose scan failed in this call
    results,        \* what the completed calls of build_file_tree gave back
    repo_url,       \* argument of clone_repo
    out_dir,        \* what output_dir is on disk: "absent", "dir" or "file"
    parent_writable,\* whether output_dir can be created where it is missing
    entries,        \* the names that exist inside output_dir
    call_log        \* the calls of clone_repo made so far

vars == <<pc, content, function_name, calls, functions, classes,
          fs, contents, stack, file_tree, visit, scan_errors, results,
          repo_url, out_dir, parent_writable, entries, call_log>>

cloneVars == <<repo_url, out_dir, parent_writable, entries, call_log>>

textVars == <<content, function_name, calls, functions, classes>>
treeVars == <<fs, contents, stack, file_tree, visit, scan_errors, results>>

(***************************************************************************)
(* Bounds of the model.                                                    *)
(***************************************************************************)
MaxLineLen == 4
MaxGap == 2
MaxIdentLen == 2
MaxBodyLen == 2
MaxCalls == 2
MaxCloneCalls == 3

(***************************************************************************)
(* Characters and the str methods the code uses.                           *)
(***************************************************************************)
LowerLetters ==
    <<"a","b","c","d","e","f","g","h","i","j","k","l","m",
      "n","o","p","q","r","s","t","u","v","w","x","y","z">>

UpperLetters ==
    <<"A","B","C","D","E","F","G","H","I","J","K","L","M",
      "N","O","P","Q","R","S","T","U","V","W","X","Y","Z">>

Digits == {"0","1","2","3","4","5","6","7","8","9"}

Range(s) == {s[i] : i \in 1..Len(s)}

\* re's \w on str patterns: letters, digits and the underscore.
WordChars == Range(LowerLetters) \cup Range(UpperLetters) \cup Digits \cup {"_"}

\* re's \s, and the characters str.strip() removes.
SpaceChars == {" ", "\t", "\r"}

\* str.startswith(prefix)
startswith(s, prefix) ==
    /\ Len(prefix) <= Len(s)
    /\ SubSeq(s, 1, Len(prefix)) = prefix

RECURSIVE lstrip_chars(_, _)
lstrip_chars(s, chars) ==
    IF s # <<>> /\ Head(s) \in chars THEN lstrip_chars(Tail(s), chars) ELSE s

RECURSIVE rstrip_chars(_, _)
rstrip_chars(s, chars) ==
    IF s # <<>> /\ s[Len(s)] \in chars
    THEN rstrip_chars(SubSeq(s, 1, Len(s) - 1), chars)
    ELSE s

\* str.strip(chars): removes every leading and trailing character that is in
\* the SET of characters of the argument.
strip_chars(s, chars) == rstrip_chars(lstrip_chars(s, chars), chars)

\* str.strip()
strip(s) == strip_chars(s, SpaceChars)

\* str.split(sep) for a one-character sep: the pieces between separators;
\* always at least one piece.
RECURSIVE split_from(_, _, _, _)
split_from(s, sep, i, cur) ==
    IF i > Len(s) THEN <<cur>>
    ELSE IF s[i] = sep THEN <<cur>> \o split_from(s, sep, i + 1, <<>>)
    ELSE split_from(s, sep, i + 1, Append(cur, s[i]))

split(s, sep) == split_from(s, sep, 1, <<>>)

\* content.split('\n')
split_lines(s) == split(s, "\n")

\* str.replace(old, ''): every occurrence of old, left to right, removed.
RECURSIVE remove_all(_, _)
remove_all(s, old) ==
    IF Len(s) < Len(old) \/ s = <<>> THEN s
    ELSE IF startswith(s, old) THEN remove_all(SubSeq(s, Len(old) + 1, Len(s)), old)
    ELSE <<Head(s)>> \o remove_all(Tail(s), old)

(***************************************************************************)
(* The part of the re module the code uses: a pattern is a sequence of     *)
(* elements, matched left to right with greedy repetition and              *)
(* backtracking.  A successful match is the sequence of the positions      *)
(* where each element starts, followed by the position after the match;    *)
(* <<>> is "no match".                                                     *)
(***************************************************************************)
El(kind, cls, ch, min, many) ==
    [kind |-> kind, cls |-> cls, ch |-> ch, min |-> min, many |-> many]

RE_BOL     == El("bol", "-", "-", 0, FALSE)        \* ^
RE_WB      == El("wb", "-", "-", 0, FALSE)         \* \b
RE_LIT(c)  == El("cls", "lit", c, 1, FALSE)        \* a literal character
RE_ANY     == El("cls", "any", "-", 1, FALSE)      \* .
RE_WORD1   == El("cls", "w", "-", 1, TRUE)         \* \w+
RE_SPACE0  == El("cls", "s", "-", 0, TRUE)         \* \s*
RE_SPACE1  == El("cls", "s", "-", 1, TRUE)         \* \s+

InClass(el, c) ==
    CASE el.cls = "w"   -> c \in WordChars
      [] el.cls = "s"   -> c \in SpaceChars
      [] el.cls = "any" -> c # "\n"
      [] el.cls = "lit" -> c = el.ch
      [] OTHER          -> FALSE

\* \b: the characters on the two sides of pos differ in being word characters
\* (outside the string counts as a non-word character).
IsWordAt(s, i) == i >= 1 /\ i <= Len(s) /\ s[i] \in WordChars

AtWordBoundary(s, pos) == IsWordAt(s, pos - 1) # IsWordAt(s, pos)

\* The longest run of characters of el's class that starts at pos.
RECURSIVE RunMax(_, _, _)
RunMax(el, s, pos) ==
    IF pos <= Len(s) /\ InClass(el, s[pos])
    THEN IF el.many THEN 1 + RunMax(el, s, pos + 1) ELSE 1
    ELSE 0

RECURSIVE MatchFrom(_, _, _, _)
RECURSIVE TryRun(_, _, _, _, _)
MatchFrom(pat, k, s, pos) ==
    IF k > Len(pat) THEN <<pos>>
    ELSE IF pat[k].kind = "bol"
         THEN LET r == MatchFrom(pat, k + 1, s, pos)
              IN  IF pos = 1 /\ r # <<>> THEN <<pos>> \o r ELSE <<>>
    ELSE IF pat[k].kind = "wb"
         THEN LET r == MatchFrom(pat, k + 1, s, pos)
              IN  IF AtWordBoundary(s, pos) /\ r # <<>> THEN <<pos>> \o r ELSE <<>>
    ELSE TryRun(pat, k, s, pos, RunMax(pat[k], s, pos))

\* Greedy: the longest run first, then shorter ones.
TryRun(pat, k, s, pos, n) ==
    IF n < pat[k].min THEN <<>>
    ELSE LET r == MatchFrom(pat, k + 1, s, pos + n)
         IN  IF r # <<>> THEN <<pos>> \o r ELSE TryRun(pat, k, s, pos, n - 1)

\* re.match(pattern, s): a match that starts at the beginning of s.
re_match(pat, s) == MatchFrom(pat, 1, s, 1)

\* pattern.search(s), as a truth value: a match that starts anywhere in s.
re_search(pat, s) == \E p \in 1..(Len(s) + 1) : MatchFrom(pat, 1, s, p) # <<>>

\* match.group(1), when the group is the k-th element of the pattern.
group_of(m, s, k) == SubSeq(s, m[k], m[k + 1] - 1)

(***************************************************************************)
(* find_function_calls                                                     *)
(***************************************************************************)
\* The characters of function_name as they read once interpolated in the
\* pattern: '.' is the wildcard, a word character stands for itself.
NameElement(c) == IF c = "." THEN RE_ANY ELSE RE_LIT(c)

\* The same pattern without the leading \b.
CallPatternNoBoundary(name) ==
    [i \in 1..Len(name) |-> NameElement(name[i])]
        \o <<RE_SPACE0, RE_LIT("(")>>

\* re.compile(rf'\b{function_name}\s*\(')
CallPattern(name) ==
    <<RE_WB>> \o [i \in 1..Len(name) |-> NameElement(name[i])]
        \o <<RE_SPACE0, RE_LIT("(")>>

\* The for loop over enumerate(lines): the 1-based numbers of the lines the
\* pattern is found in, in the order of the loop.
RECURSIVE ScanCalls(_, _, _)
ScanCalls(pattern, lines, i) ==
    IF i > Len(lines) THEN <<>>
    ELSE (IF re_search(pattern, lines[i]) THEN <<i>> ELSE <<>>)
             \o ScanCalls(pattern, lines, i + 1)

find_function_calls(c, name) ==
    ScanCalls(CallPattern(name), split_lines(c), 1)

(***************************************************************************)
(* The state of the routines that are not running.                         *)
(***************************************************************************)
EmptyMap == [k \in {} |-> "none"]

TreeIdle ==
    /\ fs = EmptyMap
    /\ contents = 1
    /\ stack = <<>>
    /\ file_tree = EmptyMap
    /\ visit = <<>>
    /\ scan_errors = {}
    /\ results = <<>>

CloneIdle ==
    /\ repo_url = <<>>
    /\ out_dir = "absent"
    /\ parent_writable = TRUE
    /\ entries = {}
    /\ call_log = <<>>

TextIdle ==
    /\ content = <<>>
    /\ function_name = <<>>
    /\ calls = <<>>
    /\ functions = <<>>
    /\ classes = <<>>

(***************************************************************************)
(* Inputs of find_function_calls.                                          *)
(***************************************************************************)
LineAlphabet == {"f", "o", "(", " ", "."}

SeqsUpTo(S, n) == UNION {[1..k -> S] : k \in 0..n}

LinePool == SeqsUpTo(LineAlphabet, MaxLineLen)

RECURSIVE JoinLines(_)
JoinLines(ls) ==
    IF Len(ls) = 0 THEN <<>>
    ELSE IF Len(ls) = 1 THEN ls[1]
    ELSE ls[1] \o <<"\n">> \o JoinLines(Tail(ls))

\* Lines put before and after the line under test.
LinesBefore == {<<>>, << <<"f", "(">> >>}
LinesAfter  == {<<>>, << <<>> >>, << <<"o", "f", "(">> >>}

\* "foo(1)\nbar(foo(2))\nfoodbar(3)"
ExampleCalls ==
    <<"f","o","o","(","1",")","\n",
      "b","a","r","(","f","o","o","(","2",")",")","\n",
      "f","o","o","d","b","a","r","(","3",")">>

CallContents ==
    {JoinLines(b \o <<l>> \o a) : b \in LinesBefore, l \in LinePool, a \in LinesAfter}
        \cup {ExampleCalls}

CallNames ==
    { <<"f">>, <<"o">>, <<"f","o">>, <<"f",".">>, <<".">>, <<"f","o","o">>, <<"f","o","o",".">> }

InitCalls ==
    /\ pc = "start"
    /\ TreeIdle
    /\ CloneIdle
    /\ content \in CallContents
    /\ function_name \in CallNames
    /\ calls = <<>>
    /\ functions = <<>>
    /\ classes = <<>>

FindFunctionCalls ==
    /\ pc = "start"
    /\ calls' = find_function_calls(content, function_name)
    /\ pc' = "done"
    /\ UNCHANGED <<content, function_name, functions, classes>>
    /\ UNCHANGED <<treeVars, cloneVars>>

NextCalls == FindFunctionCalls

SpecCalls == InitCalls /\ [][NextCalls]_vars

(***************************************************************************)
(* Claims about find_function_calls.                                       *)
(***************************************************************************)
Lines == split_lines(content)

IsPlainIdentifier(name) ==
    /\ name # <<>>
    /\ \A i \in 1..Len(name) : name[i] \in WordChars
    /\ name[1] \notin Digits

\* The literal name at position p of the line, an opening parenthesis at q,
\* and nothing but whitespace between the two.
LiteralCallAt(line, name, p, q) ==
    /\ p + Len(name) - 1 <= Len(line)
    /\ SubSeq(line, p, p + Len(name) - 1) = name
    /\ q >= p + Len(name)
    /\ q <= Len(line)
    /\ line[q] = "("
    /\ \A j \in (p + Len(name))..(q - 1) : line[j] \in SpaceChars

\* The name as a whole word, then optional whitespace, then '('.
ContainsCallOf(line, name) ==
    \E p \in 1..Len(line) : \E q \in 1..Len(line) :
        /\ LiteralCallAt(line, name, p, q)
        /\ ~IsWordAt(line, p - 1)

\* The name as a whole word with '(' right after it.
ContainsImmediateCallOf(line, name) ==
    \E p \in 1..Len(line) :
        /\ LiteralCallAt(line, name, p, p + Len(name))
        /\ ~IsWordAt(line, p - 1)

\* The literal name (whole word or not) followed by '('.
ContainsLiteralCall(line, name) ==
    \E p \in 1..Len(line) : \E q \in 1..Len(line) : LiteralCallAt(line, name, p, q)

StrictlyAscending(s) == \A i \in 1..(Len(s) - 1) : s[i] < s[i + 1]

FooName == <<"f", "o", "o">>

\* C2 (as claimed): with a name that holds a pattern metacharacter, every
\* reported line holds the literal name followed by an opening parenthesis.
C2_OnlyLiteralMatches ==
    pc = "done" =>
        \A i \in Range(calls) : ContainsLiteralCall(Lines[i], function_name)

\* C6 (as claimed): for a plain identifier the result is exactly the ascending
\* list of the lines that hold the name as a whole word IMMEDIATELY followed
\* by '(', and the example text yields [1, 2].
C6_ExactlyImmediateCalls ==
    (pc = "done" /\ IsPlainIdentifier(function_name)) =>
        /\ StrictlyAscending(calls)
        /\ Range(calls) =
               {i \in 1..Len(Lines) : ContainsImmediateCallOf(Lines[i], function_name)}
        /\ (content = ExampleCalls /\ function_name = FooName) => calls = <<1, 2>>

\* C6 (amended): for a plain identifier the result is exactly the ascending
\* list, each line once, of the lines that hold the name as a whole word
\* followed by optional whitespace and '('; a line where the name is only the
\* prefix of a longer identifier is not reported; the example yields [1, 2].
C6_ExactlyCallLines ==
    (pc = "done" /\ IsPlainIdentifier(function_name)) =>
        /\ StrictlyAscending(calls)
        /\ Range(calls) =
               {i \in 1..Len(Lines) : ContainsCallOf(Lines[i], function_name)}
        /\ (content = ExampleCalls /\ function_name = FooName) => calls = <<1, 2>>

\* C6 witness: a call with whitespace before '(' is reported, next to another
\* reported line, and a line with the name inside a longer identifier is not.
C6_Witness ==
    /\ pc = "done"
    /\ IsPlainIdentifier(function_name)
    /\ Len(calls) >= 2
    /\ \E i \in Range(calls) :
           ~ContainsImmediateCallOf(Lines[i], function_name)
    /\ \E i \in 1..Len(Lines) :
           /\ i \notin Range(calls)
           /\ ContainsLiteralCall(Lines[i], function_name)

(***************************************************************************)
(* simple_parse_python                                                     *)
(***************************************************************************)
S_def   == <<"d", "e", "f">>
S_class == <<"c", "l", "a", "s", "s">>
DQ3     == <<"\"", "\"", "\"">>
SQ3     == <<"'", "'", "'">>

Lits(s) == [i \in 1..Len(s) |-> RE_LIT(s[i])]

\* The same pattern with leading whitespace allowed.
FuncPatternIndented ==
    <<RE_BOL, RE_SPACE0>> \o Lits(S_def) \o <<RE_SPACE1, RE_WORD1, RE_SPACE0, RE_LIT("(")>>

\* r'^def\s+(\w+)\s*\('
FuncPattern ==
    <<RE_BOL>> \o Lits(S_def) \o <<RE_SPACE1, RE_WORD1, RE_SPACE0, RE_LIT("(")>>

\* r'^class\s+(\w+)'
ClassPattern ==
    <<RE_BOL>> \o Lits(S_class) \o <<RE_SPACE1, RE_WORD1>>

\* The element of a pattern that is its group 1: the \w+.
GroupIndex(pat) == CHOOSE k \in 1..Len(pat) : pat[k] = RE_WORD1

\* The docstring of the declaration on line k (1-based) of lines.
DocstringAfter(lines, k) ==
    IF k + 1 <= Len(lines)
    THEN LET next_line == strip(lines[k + 1])
         IN  IF startswith(next_line, DQ3) \/ startswith(next_line, SQ3)
             THEN strip_chars(strip_chars(next_line, Range(DQ3)), Range(SQ3))
             ELSE <<>>
    ELSE <<>>

DeclRecord(pat, lines, k, type) ==
    [name      |-> group_of(re_match(pat, lines[k]), lines[k], GroupIndex(pat)),
     line      |-> k,
     docstring |-> DocstringAfter(lines, k),
     type      |-> type]

\* The for loop over enumerate(lines), for one of the two patterns.
RECURSIVE ScanDecls(_, _, _, _)
ScanDecls(pat, lines, k, type) ==
    IF k > Len(lines) THEN <<>>
    ELSE (IF re_match(pat, lines[k]) # <<>>
          THEN <<DeclRecord(pat, lines, k, type)>>
          ELSE <<>>)
             \o ScanDecls(pat, lines, k + 1, type)

simple_parse_python(c) ==
    [functions |-> ScanDecls(FuncPattern, split_lines(c), 1, "function"),
     classes   |-> ScanDecls(ClassPattern, split_lines(c), 1, "class")]

(***************************************************************************)
(* Inputs of simple_parse_python: declaration lines put together from an   *)
(* indentation, a keyword, a gap, a name, a gap and a tail; lines that may *)
(* follow a declaration put together from an indentation, an opening run   *)
(* of quotes, a body, a closing run of quotes and trailing blanks.         *)
(***************************************************************************)
Blanks(n) == [i \in 1..n |-> " "]

DeclIndents  == {<<>>, <<" ">>}
DeclKeywords == {S_def, S_class, <<"d", "e">>}
DeclGaps     == {Blanks(n) : n \in 0..MaxGap}
DeclNames    == SeqsUpTo({"f", "1"}, MaxIdentLen)
DeclGaps2    == {<<>>, <<" ">>}
DeclTails    == {<<>>, <<"(">>, <<"(", "x", ")", ":">>, <<":">>}

DeclLines ==
    {i \o k \o g \o n \o h \o t :
        i \in DeclIndents, k \in DeclKeywords, g \in DeclGaps,
        n \in DeclNames, h \in DeclGaps2, t \in DeclTails}

DocIndents == {<<>>, <<" ", " ">>}
DocOpens   == {<<>>, DQ3, SQ3, <<"\"", "\"">>, DQ3 \o <<"\"">>}
DocBodies  == SeqsUpTo({"a", "'", "\""}, MaxBodyLen)
DocCloses  == {<<>>, DQ3, SQ3}
DocTrails  == {<<>>, <<" ">>}

DocLines ==
    {i \o o \o b \o c \o t :
        i \in DocIndents, o \in DocOpens, b \in DocBodies,
        c \in DocCloses, t \in DocTrails}

L_def_f   == <<"d", "e", "f", " ", "f", "(", "x", ")", ":">>
L_class_C == <<"c", "l", "a", "s", "s", " ", "C", ":">>
L_indented_def == <<" ", "d", "e", "f", " ", "f", "(", ")", ":">>
L_doc == <<" ", "\"", "\"", "\"", "a", "\"", "\"", "\"">>

\* Lines before the declaration, and what may follow it.
ParseBefore == {<<>>, <<L_class_C>>, <<L_indented_def>>}
SomeFollowers == {<<>>, << <<>> >>, <<L_doc>>, <<L_indented_def>>}
SomeDecls == {L_def_f, L_class_C, L_indented_def, <<"f", "(", ")">>}

\* "def foo(x):\n    \"\"\"does a thing\"\"\"\n    return x"
ExampleParse ==
    <<"d","e","f"," ","f","o","o","(","x",")",":","\n",
      " "," "," "," ","\"","\"","\"","d","o","e","s"," ","a"," ",
      "t","h","i","n","g","\"","\"","\"","\n",
      " "," "," "," ","r","e","t","u","r","n"," ","x">>

ParseContents ==
    {JoinLines(b \o <<d>> \o f) :
        b \in ParseBefore, d \in DeclLines, f \in SomeFollowers}
    \cup {JoinLines(b \o <<d, n>>) :
        b \in ParseBefore, d \in SomeDecls, n \in DocLines}
    \cup {ExampleParse}

InitParse ==
    /\ pc = "start"
    /\ TreeIdle
    /\ CloneIdle
    /\ content \in ParseContents
    /\ function_name = <<>>
    /\ calls = <<>>
    /\ functions = <<>>
    /\ classes = <<>>

SimpleParsePython ==
    /\ pc = "start"
    /\ functions' = simple_parse_python(content).functions
    /\ classes' = simple_parse_python(content).classes
    /\ pc' = "done"
    /\ UNCHANGED <<content, function_name, calls>>
    /\ UNCHANGED <<treeVars, cloneVars>>

NextParse == SimpleParsePython

SpecParse == InitParse /\ [][NextParse]_vars

(***************************************************************************)
(* Claims about simple_parse_python.                                       *)
(***************************************************************************)
Records == Range(functions) \cup Range(classes)

StartsWithMarker(t) == startswith(t, DQ3) \/ startswith(t, SQ3)

\* The line without its leading triple-quote marker.
LeadingMarkerStripped(t) == SubSeq(t, 4, Len(t))

\* The line without its leading marker and, when it ends with the same
\* marker, without that closing marker.
BothMarkersStripped(t) ==
    LET r == LeadingMarkerStripped(t)
    IN  IF Len(r) >= 3 /\ SubSeq(r, Len(r) - 2, Len(r)) = SubSeq(t, 1, 3)
        THEN SubSeq(r, 1, Len(r) - 3)
        ELSE r

\* The line without the quote characters of its marker's kind at its two ends.
MarkerQuotesStripped(t) == strip_chars(t, {t[1]})

S_foo == <<"f", "o", "o">>
S_does_a_thing == <<"d","o","e","s"," ","a"," ","t","h","i","n","g">>

\* C5 (as claimed): the docstring of a declaration on line i is the trimmed
\* line i+1 with the triple-quote marker stripped when that line begins with
\* a marker, and empty otherwise; the example yields one function record
\* foo, line 1, docstring 'does a thing'.  "The marker stripped" is read in
\* every way the sentence allows: the opening marker only, the opening and
\* the closing marker, or every quote character of the marker's kind at the
\* two ends of the line.
C5_DocstringIsMarkerStripped ==
    pc = "done" =>
        /\ \A r \in Records :
               IF r.line + 1 <= Len(Lines) /\ StartsWithMarker(strip(Lines[r.line + 1]))
               THEN r.docstring \in {LeadingMarkerStripped(strip(Lines[r.line + 1])),
                                     BothMarkersStripped(strip(Lines[r.line + 1])),
                                     MarkerQuotesStripped(strip(Lines[r.line + 1]))}
               ELSE r.docstring = <<>>
        /\ content = ExampleParse =>
               /\ functions = << [name |-> S_foo, line |-> 1,
                                  docstring |-> S_does_a_thing, type |-> "function"] >>
               /\ classes = <<>>

IsIdentifier(n) ==
    /\ n # <<>>
    /\ \A i \in 1..Len(n) : n[i] \in WordChars
    /\ n[1] \notin Digits

RecordsOfLine(recs, i) == {k \in 1..Len(recs) : recs[k].line = i}

\* The first position from p on that holds no whitespace / no word character.
RECURSIVE AfterSpaces(_, _)
AfterSpaces(line, p) ==
    IF p <= Len(line) /\ line[p] \in SpaceChars THEN AfterSpaces(line, p + 1) ELSE p

RECURSIVE AfterWord(_, _)
AfterWord(line, p) ==
    IF p <= Len(line) /\ line[p] \in WordChars THEN AfterWord(line, p + 1) ELSE p

\* The line begins with the keyword, at least one whitespace character and an
\* identifier; DeclName is that identifier, DeclEnd the position after it.
DeclNameStart(line, keyword) == AfterSpaces(line, Len(keyword) + 1)
DeclEnd(line, keyword) == AfterWord(line, DeclNameStart(line, keyword))
DeclName(line, keyword) ==
    SubSeq(line, DeclNameStart(line, keyword), DeclEnd(line, keyword) - 1)

BeginsWithDecl(line, keyword) ==
    /\ startswith(line, keyword)
    /\ DeclNameStart(line, keyword) > Len(keyword) + 1
    /\ IsIdentifier(DeclName(line, keyword))

\* C8: a record is made only for a line whose keyword begins at column 0; a
\* line with leading whitespace yields no record; every line that begins with
\* 'def', whitespace, an identifier and '(' (respectively 'class', whitespace,
\* an identifier) yields exactly one record with that identifier and the
\* line's 1-based number; no line yields both a function and a class record.
C8_ColumnZeroDeclarations ==
    pc = "done" =>
        /\ \A r \in Range(functions) :
               /\ r.line \in 1..Len(Lines)
               /\ startswith(Lines[r.line], S_def)
               /\ r.type = "function"
        /\ \A r \in Range(classes) :
               /\ r.line \in 1..Len(Lines)
               /\ startswith(Lines[r.line], S_class)
               /\ r.type = "class"
        /\ \A i \in 1..Len(Lines) :
               /\ (Lines[i] # <<>> /\ Lines[i][1] \in SpaceChars) =>
                      (RecordsOfLine(functions, i) = {} /\ RecordsOfLine(classes, i) = {})
               /\ (/\ BeginsWithDecl(Lines[i], S_def)
                   /\ DeclEnd(Lines[i], S_def) <= Len(Lines[i])
                   /\ Lines[i][DeclEnd(Lines[i], S_def)] = "(") =>
                      \E k \in 1..Len(functions) :
                          /\ RecordsOfLine(functions, i) = {k}
                          /\ functions[k].name = DeclName(Lines[i], S_def)
               /\ BeginsWithDecl(Lines[i], S_class) =>
                      \E k \in 1..Len(classes) :
                          /\ RecordsOfLine(classes, i) = {k}
                          /\ classes[k].name = DeclName(Lines[i], S_class)
               /\ ~(RecordsOfLine(functions, i) # {} /\ RecordsOfLine(classes, i) # {})

\* C8 witness: an indented def line that yields no record, beside a def line
\* and a class line at column 0 that each yield their record.
C8_Witness ==
    /\ pc = "done"
    /\ \E i \in 1..Len(Lines) :
           /\ Lines[i] = L_indented_def
           /\ RecordsOfLine(functions, i) = {}
    /\ \E k \in 1..Len(functions) : functions[k].name = <<"f">> /\ functions[k].line = 2
    /\ \E k \in 1..Len(classes) : classes[k].name = <<"C">> /\ classes[k].line = 1

(***************************************************************************)
(* build_file_tree                                                         *)
(***************************************************************************)
\* Directories to ignore.
ignore_dirs ==
    { <<".", "g", "i", "t">>,
      <<"n", "o", "d", "e", "_", "m", "o", "d", "u", "l", "e", "s">>,
      <<"_", "_", "p", "y", "c", "a", "c", "h", "e", "_", "_">>,
      <<"v", "e", "n", "v">>,
      <<".", "v", "e", "n", "v">>,
      <<"e", "n", "v">>,
      <<"b", "u", "i", "l", "d">>,
      <<"d", "i", "s", "t">>,
      <<".", "e", "g", "g", "s">>,
      <<"*", ".", "e", "g", "g", "-", "i", "n", "f", "o">>,
      <<".", "t", "o", "x">>,
      <<".", "p", "y", "t", "e", "s", "t", "_", "c", "a", "c", "h", "e">>,
      <<".", "m", "y", "p", "y", "_", "c", "a", "c", "h", "e">>,
      <<"h", "t", "m", "l", "c", "o", "v">>,
      <<".", "c", "o", "v", "e", "r", "a", "g", "e">> }

\* File extensions to include.
code_extensions ==
    (<<".", "p", "y">> :> "python")
    @@ (<<".", "j", "a", "c">> :> "jac")
    @@ (<<".", "j", "s">> :> "javascript")
    @@ (<<".", "t", "s">> :> "typescript")
    @@ (<<".", "j", "a", "v", "a">> :> "java")
    @@ (<<".", "c", "p", "p">> :> "cpp")
    @@ (<<".", "c">> :> "c")
    @@ (<<".", "h">> :> "c")
    @@ (<<".", "g", "o">> :> "go")
    @@ (<<".", "r", "s">> :> "rust")
    @@ (<<".", "r", "b">> :> "ruby")
    @@ (<<".", "p", "h", "p">> :> "php")

S_md == <<".", "m", "d">>

\* ['readme.md', 'readme.txt', 'readme']
readme_names ==
    { <<"r", "e", "a", "d", "m", "e", ".", "m", "d">>, <<"r", "e", "a", "d", "m", "e", ".", "t", "x", "t">>, <<"r", "e", "a", "d", "m", "e">> }

\* chr.lower() for the letters A-Z.
LowerChar(c) ==
    IF \E i \in 1..Len(UpperLetters) : UpperLetters[i] = c
    THEN LowerLetters[CHOOSE i \in 1..Len(UpperLetters) : UpperLetters[i] = c]
    ELSE c

\* str.lower()
lower(s) == [i \in 1..Len(s) |-> LowerChar(s[i])]

\* os.path.splitext on a name without separators: the extension begins at the
\* last dot, unless only dots come before that dot.
LastDot(p) ==
    IF \E i \in 1..Len(p) : p[i] = "."
    THEN CHOOSE i \in 1..Len(p) : p[i] = "." /\ \A j \in (i + 1)..Len(p) : p[j] # "."
    ELSE 0

splitext(p) ==
    IF LastDot(p) > 0 /\ \E i \in 1..(LastDot(p) - 1) : p[i] # "."
    THEN <<SubSeq(p, 1, LastDot(p) - 1), SubSeq(p, LastDot(p), Len(p))>>
    ELSE <<p, <<>>>>

\* Paths are sequences of components.
path_join(root, name) == Append(root, name)

\* os.path.relpath(path, start) for a path below start.
relpath(path, start) == SubSeq(path, Len(start) + 1, Len(path))

IsHidden(name) == startswith(name, <<".">>)

\* Only the ignore set is consulted: hidden directories are kept.
FilterDirsIgnoreSetOnly(dirs) ==
    SelectSeq(dirs, LAMBDA d : d \notin ignore_dirs)

\* The ignored names are taken out of the list while a loop runs over it: the
\* name after each one taken out is not looked at.
RECURSIVE RemoveWhileIterating(_, _)
RemoveWhileIterating(dirs, i) ==
    IF i > Len(dirs) THEN dirs
    ELSE IF dirs[i] \in ignore_dirs \/ IsHidden(dirs[i])
         THEN RemoveWhileIterating(
                  SubSeq(dirs, 1, i - 1) \o SubSeq(dirs, i + 1, Len(dirs)), i + 1)
         ELSE RemoveWhileIterating(dirs, i + 1)

FilterDirsWhileIterating(dirs) == RemoveWhileIterating(dirs, 1)

\* dirs[:] = [d for d in dirs if d not in ignore_dirs and not d.startswith('.')]
FilterDirs(dirs) ==
    SelectSeq(dirs, LAMBDA d : d \notin ignore_dirs /\ ~IsHidden(d))

\* The '.md' test made before the README test.
ClassifyMarkdownFirst(file) ==
    IF splitext(file)[2] \in DOMAIN code_extensions
    THEN code_extensions[splitext(file)[2]]
    ELSE IF splitext(file)[2] = S_md THEN "markdown"
    ELSE IF lower(file) \in readme_names THEN "readme"
    ELSE "none"

\* The if / elif / elif on a file name; "none": the file gets no entry.
Classify(file) ==
    IF splitext(file)[2] \in DOMAIN code_extensions
    THEN code_extensions[splitext(file)[2]]
    ELSE IF lower(file) \in readme_names THEN "readme"
    ELSE IF splitext(file)[2] = S_md THEN "markdown"
    ELSE "none"

\* file_tree[key] = label
SetItem(map, key, label) ==
    [k \in DOMAIN map \cup {key} |-> IF k = key THEN label ELSE map[k]]

\* The loop over the files of one directory.
RECURSIVE AddFiles(_, _, _, _, _)
AddFiles(map, root, files, i, root_path) ==
    IF i > Len(files) THEN map
    ELSE IF IsHidden(files[i]) \/ Classify(files[i]) = "none"
         THEN AddFiles(map, root, files, i + 1, root_path)
         ELSE AddFiles(
                  SetItem(map, relpath(path_join(root, files[i]), root_path),
                          Classify(files[i])),
                  root, files, i + 1, root_path)

\* os.scandir(top): fails for a path that is no directory or cannot be read.
ScanFails(top) == IF top \in DOMAIN fs THEN ~fs[top].readable ELSE TRUE

\* The orders in which a listing may come back.
Orderings(S) == {o \in [1..Cardinality(S) -> S] : Range(o) = S}

Reverse(s) == [i \in 1..Len(s) |-> s[Len(s) + 1 - i]]

(***************************************************************************)
(* Inputs of build_file_tree: a root with up to two subdirectories, one of *)
(* them with a subdirectory of its own; at most one directory unreadable;  *)
(* or no root at all.                                                      *)
(***************************************************************************)
S_repo == <<"r", "e", "p", "o">>
S_other == <<"o", "t", "h", "e", "r">>
D_src == <<"s", "r", "c">>
D_node_modules == <<"n", "o", "d", "e", "_", "m", "o", "d", "u", "l", "e", "s">>
D_github == <<".", "g", "i", "t", "h", "u", "b">>
D_pkg == <<"p", "k", "g">>
D_dist == <<"d", "i", "s", "t">>
D_docs == <<"d", "o", "c", "s">>
D_venv == <<"v", "e", "n", "v">>
F_README_md == <<"R", "E", "A", "D", "M", "E", ".", "m", "d">>
F_notes_md == <<"n", "o", "t", "e", "s", ".", "m", "d">>
F_main_py == <<"m", "a", "i", "n", ".", "p", "y">>
F_lib_rs == <<"l", "i", "b", ".", "r", "s">>
F_README == <<"R", "E", "A", "D", "M", "E">>
F_readme_txt == <<"r", "e", "a", "d", "m", "e", ".", "t", "x", "t">>
F_ReadMe_MD == <<"R", "e", "a", "d", "M", "e", ".", "M", "D">>
F_Makefile == <<"M", "a", "k", "e", "f", "i", "l", "e">>
F_README_py == <<"R", "E", "A", "D", "M", "E", ".", "p", "y">>
F_NOTES_MD == <<"N", "O", "T", "E", "S", ".", "M", "D">>
F_data_bin == <<"d", "a", "t", "a", ".", "b", "i", "n">>
F_hidden_py == <<".", "h", "i", "d", "d", "e", "n", ".", "p", "y">>
F_README_rst == <<"R", "E", "A", "D", "M", "E", ".", "r", "s", "t">>
F_index_js == <<"i", "n", "d", "e", "x", ".", "j", "s">>
F_util_c == <<"u", "t", "i", "l", ".", "c">>
F_setup_py == <<"s", "e", "t", "u", "p", ".", "p", "y">>
F_env == <<".", "e", "n", "v">>

root_path == <<S_repo>>

NoDir == <<>>

ExampleFiles == {F_README_md, F_notes_md, F_main_py, F_lib_rs}

RootFileSets ==
    { ExampleFiles,
      {F_README, F_readme_txt, F_ReadMe_MD},
      {F_README_py, F_NOTES_MD, F_hidden_py},
      {} }
FirstFileSets  == { {F_index_js, F_env}, {F_main_py, F_data_bin} }
NestedFileSets == { {F_util_c}, {F_README, F_Makefile} }
SecondFileSets == { {F_setup_py, F_README_rst}, {F_notes_md} }

FirstDirs  == {NoDir, D_src, D_node_modules, D_github}
NestedDirs == {NoDir, D_pkg, D_dist}
SecondDirs == {NoDir, D_docs, D_venv}

Dir(files, subdirs, readable) ==
    [files |-> files, subdirs |-> subdirs \ {NoDir}, readable |-> readable]

\* The directories on disk, given the names, the files and the one
\* directory ("root", "first", "nested", "second" or "none") that is unreadable.
MakeFs(d1, d2, d3, f0, f1, f2, f3, bad) ==
    (root_path :> Dir(f0, {d1, d3}, bad # "root"))
    @@ (IF d1 = NoDir THEN EmptyMap
        ELSE (<<S_repo, d1>> :> Dir(f1, {d2}, bad # "first")))
    @@ (IF d1 = NoDir \/ d2 = NoDir THEN EmptyMap
        ELSE (<<S_repo, d1, d2>> :> Dir(f2, {}, bad # "nested")))
    @@ (IF d3 = NoDir THEN EmptyMap
        ELSE (<<S_repo, d3>> :> Dir(f3, {}, bad # "second")))

\* A disk on which root_path does not exist: only another directory does.
NoRootFs == (<<S_other>> :> Dir({F_main_py}, {}, TRUE))

Trees ==
    {MakeFs(d1, d2, d3, f0, f1, f2, f3, bad) :
        d1 \in FirstDirs, d2 \in NestedDirs, d3 \in SecondDirs,
        f0 \in RootFileSets, f1 \in FirstFileSets, f2 \in NestedFileSets,
        f3 \in SecondFileSets,
        bad \in {"none", "root", "first", "nested", "second"}}
    \cup {NoRootFs}

InitTree ==
    /\ pc = "idle"
    /\ TextIdle
    /\ CloneIdle
    /\ fs \in Trees
    /\ contents = 1
    /\ stack = <<>>
    /\ file_tree = EmptyMap
    /\ visit = <<>>
    /\ scan_errors = {}
    /\ results = <<>>

\* build_file_tree(root_path) is called: file_tree = {} and os.walk starts.
Call ==
    /\ pc = "idle"
    /\ Len(results) < MaxCalls
    /\ pc' = "walking"
    /\ file_tree' = EmptyMap
    /\ stack' = <<root_path>>
    /\ visit' = <<>>
    /\ scan_errors' = {}
    /\ UNCHANGED <<fs, contents, results>>
    /\ UNCHANGED <<textVars, cloneVars>>

\* One turn of the loop over os.walk, for a directory whose scan fails:
\* os.walk was given no onerror, so the error is dropped and the walk goes on.
WalkError ==
    /\ pc = "walking"
    /\ stack # <<>>
    /\ ScanFails(stack[Len(stack)])
    /\ stack' = SubSeq(stack, 1, Len(stack) - 1)
    /\ scan_errors' = scan_errors \cup {stack[Len(stack)]}
    /\ UNCHANGED <<fs, contents, file_tree, visit, results, pc>>
    /\ UNCHANGED <<textVars, cloneVars>>

\* One turn of the loop over os.walk, for a directory that is listed: the
\* directories are filtered in place, the files are classified, and os.walk
\* queues the directories that are left.
WalkStep ==
    /\ pc = "walking"
    /\ stack # <<>>
    /\ ~ScanFails(stack[Len(stack)])
    /\ LET root == stack[Len(stack)] IN
       \E dirs \in Orderings(fs[root].subdirs), files \in Orderings(fs[root].files) :
           /\ file_tree' = AddFiles(file_tree, root, files, 1, root_path)
           /\ stack' = SubSeq(stack, 1, Len(stack) - 1)
                           \o Reverse([i \in 1..Len(FilterDirs(dirs)) |->
                                          path_join(root, FilterDirs(dirs)[i])])
           /\ visit' = Append(visit, root)
    /\ UNCHANGED <<fs, contents, scan_errors, results, pc>>
    /\ UNCHANGED <<textVars, cloneVars>>

\* os.walk is exhausted: return file_tree.
Return ==
    /\ pc = "walking"
    /\ stack = <<>>
    /\ pc' = "idle"
    /\ results' = Append(results,
                         [outcome |-> "returned", tree |-> file_tree, visit |-> visit,
                          errors |-> scan_errors, contents |-> contents])
    /\ UNCHANGED <<fs, contents, stack, file_tree, visit, scan_errors>>
    /\ UNCHANGED <<textVars, cloneVars>>

\* Between two calls the bytes of the files are rewritten; names, listings and
\* permissions stay as they are.
RewriteContents ==
    /\ pc = "idle"
    /\ Len(results) >= 1
    /\ contents = Len(results)
    /\ contents' = contents + 1
    /\ UNCHANGED <<fs, stack, file_tree, visit, scan_errors, results, pc>>
    /\ UNCHANGED <<textVars, cloneVars>>

NextTree == Call \/ WalkError \/ WalkStep \/ Return \/ RewriteContents

SpecTree == InitTree /\ [][NextTree]_vars

(***************************************************************************)
(* Claims about build_file_tree.                                           *)
(***************************************************************************)
\* A directory name the walk must not enter: in the ignore set, or hidden.
IsPrunedName(n) == n \in ignore_dirs \/ (n # <<>> /\ Head(n) = ".")

Returned == {results[i] : i \in 1..Len(results)}

\* Every mapping the routine holds or has given back.
Mappings == {file_tree} \cup {r.tree : r \in Returned}

RootMissing == root_path \notin DOMAIN fs

RootUnreadable == IF RootMissing THEN FALSE ELSE ~fs[root_path].readable

\* C1 (as claimed): a call on a root that does not exist or cannot be read
\* fails with a filesystem-access error; it does not return a mapping.
C1_BadRootFails ==
    \A r \in Returned :
        (RootMissing \/ RootUnreadable) => r.outcome = "error"

\* C7 (as claimed): when a directory met during the traversal cannot be
\* listed, the call fails and returns no mapping: never the files of the
\* directories that could be read.
C7_NoPartialMapping ==
    \A r \in Returned :
        (\E p \in r.errors : p # root_path) => r.outcome = "error"

\* C3: no path of the mapping has a directory component that is in the
\* ignore set or hidden, whatever those directories hold, and the walk never
\* queues, scans or fails on such a directory: they are pruned before descent.
C3_IgnoredDirsPruned ==
    /\ \A m \in Mappings : \A k \in DOMAIN m :
           \A j \in 1..(Len(k) - 1) : ~IsPrunedName(k[j])
    /\ \A p \in Range(stack) \cup Range(visit) \cup scan_errors :
           \A j \in (Len(root_path) + 1)..Len(p) : ~IsPrunedName(p[j])

\* C3 witness: a call has returned a non-empty mapping for a tree in which an
\* ignored directory under a visited one holds a file with a recognized
\* extension.
C3_Witness ==
    /\ Len(results) >= 1
    /\ DOMAIN results[1].tree # {}
    /\ \E p \in DOMAIN fs :
           /\ Len(p) = 3
           /\ ~IsPrunedName(p[2])
           /\ p[3] \in ignore_dirs
           /\ SubSeq(p, 1, 2) \in Range(results[1].visit)
           /\ \E f \in fs[p].files : splitext(f)[2] \in DOMAIN code_extensions

\* The label the precedence rules give each file name of the input trees
\* ("absent": no entry), worked out by hand from the rules.
ExpectedLabel ==
    (F_README_md :> "readme") @@ (F_notes_md :> "markdown")
    @@ (F_main_py :> "python") @@ (F_lib_rs :> "rust")
    @@ (F_README :> "readme") @@ (F_readme_txt :> "readme")
    @@ (F_ReadMe_MD :> "readme") @@ (F_Makefile :> "absent")
    @@ (F_README_py :> "python") @@ (F_NOTES_MD :> "absent")
    @@ (F_data_bin :> "absent") @@ (F_hidden_py :> "absent")
    @@ (F_README_rst :> "absent") @@ (F_index_js :> "javascript")
    @@ (F_util_c :> "c") @@ (F_setup_py :> "python") @@ (F_env :> "absent")

\* The directories a walk from root_path reaches: every directory on the way
\* exists and can be listed, and no name below the root is pruned.
ReachedDirs ==
    {p \in DOMAIN fs :
        /\ SubSeq(p, 1, Len(root_path)) = root_path
        /\ \A j \in Len(root_path)..Len(p) :
               /\ SubSeq(p, 1, j) \in DOMAIN fs
               /\ fs[SubSeq(p, 1, j)].readable
        /\ \A j \in (Len(root_path) + 1)..Len(p) : ~IsPrunedName(p[j])}

ExampleMapping ==
    (<<F_README_md>> :> "readme") @@ (<<F_notes_md>> :> "markdown")
    @@ (<<F_main_py>> :> "python") @@ (<<F_lib_rs>> :> "rust")

IsExampleTree ==
    /\ DOMAIN fs = {root_path}
    /\ fs[root_path].files = ExampleFiles
    /\ fs[root_path].readable

\* C4: every file of a reached directory is labelled by the precedence
\* extension table, then README spelling, then '.md', and otherwise (or when
\* hidden) has no entry; the mapping holds nothing else; the tree of
\* README.md, notes.md, main.py and lib.rs gives exactly the mapping claimed.
C4_LabelPrecedence ==
    \A r \in Returned :
        /\ \A p \in ReachedDirs : \A f \in fs[p].files :
               LET key == SubSeq(p, Len(root_path) + 1, Len(p)) \o <<f>>
               IN  IF ExpectedLabel[f] = "absent"
                   THEN key \notin DOMAIN r.tree
                   ELSE key \in DOMAIN r.tree /\ r.tree[key] = ExpectedLabel[f]
        /\ \A k \in DOMAIN r.tree :
               /\ root_path \o SubSeq(k, 1, Len(k) - 1) \in ReachedDirs
               /\ k[Len(k)] \in fs[root_path \o SubSeq(k, 1, Len(k) - 1)].files
        /\ IsExampleTree => r.tree = ExampleMapping

\* C4 witness: the example tree has been classified, with the mapping claimed.
C4_Witness ==
    /\ Len(results) >= 1
    /\ IsExampleTree
    /\ results[1].tree = ExampleMapping

\* C9: every call on the same tree gives back the same keys with the same
\* labels, whatever the order the listings come back in and whatever the
\* bytes of the files are at the time of the call.
C9_SameMappingEveryRun ==
    \A r1 \in Returned : \A r2 \in Returned : r1.tree = r2.tree

\* C9 witness: two calls that scanned the directories in different orders,
\* with the file contents rewritten in between, gave a mapping of several files.
C9_Witness ==
    /\ Len(results) >= 2
    /\ results[1].visit # results[2].visit
    /\ results[1].contents # results[2].contents
    /\ Cardinality(DOMAIN results[2].tree) >= 3

(***************************************************************************)
(* clone_repo                                                              *)
(***************************************************************************)
S_dot_git == <<".", "g", "i", "t">>

\* repo_url.split("/")[-1].replace(".git", "")
repo_name_of(url) ==
    remove_all(split(url, "/")[Len(split(url, "/"))], S_dot_git)

\* The existence test left out: the target is never found.
TargetNeverExists(name, dir, names) == FALSE

\* os.path.exists(os.path.join(output_dir, repo_name)): with an empty name
\* the joined path is output_dir itself, with a trailing separator.
TargetExists(name, dir, names) ==
    IF name = <<>> THEN dir = "dir" ELSE dir = "dir" /\ name \in names

\* os.makedirs(output_dir, exist_ok=True) fails when output_dir is a file, or
\* is missing and cannot be created.
MakedirsFails == out_dir = "file" \/ (out_dir = "absent" /\ ~parent_writable)

LogCall(outcome, invoked) ==
    call_log' = Append(call_log,
                       [outcome |-> outcome, invoked |-> invoked,
                        dir_before |-> out_dir, before |-> entries,
                        after |-> entries'])

\* A call in which os.makedirs raises: the exception leaves clone_repo.
CloneRepoRaises ==
    /\ pc = "idle"
    /\ Len(call_log) < MaxCloneCalls
    /\ MakedirsFails
    /\ entries' = entries
    /\ LogCall("raised", FALSE)
    /\ UNCHANGED <<pc, repo_url, out_dir, parent_writable>>
    /\ UNCHANGED <<textVars, treeVars>>

\* A call that finds the target path: the "already exists" message.
CloneRepoExists ==
    /\ pc = "idle"
    /\ Len(call_log) < MaxCloneCalls
    /\ ~MakedirsFails
    /\ TargetExists(repo_name_of(repo_url), "dir", entries)
    /\ out_dir' = "dir"
    /\ entries' = entries
    /\ LogCall("exists", FALSE)
    /\ UNCHANGED <<pc, repo_url, parent_writable>>
    /\ UNCHANGED <<textVars, treeVars>>

\* A call that runs Repo.clone_from, which succeeds: the target now exists.
CloneRepoCloned ==
    /\ pc = "idle"
    /\ Len(call_log) < MaxCloneCalls
    /\ ~MakedirsFails
    /\ ~TargetExists(repo_name_of(repo_url), "dir", entries)
    /\ out_dir' = "dir"
    /\ entries' = entries \cup {repo_name_of(repo_url)}
    /\ LogCall("cloned", TRUE)
    /\ UNCHANGED <<pc, repo_url, parent_writable>>
    /\ UNCHANGED <<textVars, treeVars>>

\* A call that runs Repo.clone_from, which fails: the exception is caught and
\* the error message returned.  The external client may or may not leave a
\* partial target directory behind.
CloneRepoError ==
    /\ pc = "idle"
    /\ Len(call_log) < MaxCloneCalls
    /\ ~MakedirsFails
    /\ ~TargetExists(repo_name_of(repo_url), "dir", entries)
    /\ out_dir' = "dir"
    /\ \E left_behind \in BOOLEAN :
           entries' = IF left_behind THEN entries \cup {repo_name_of(repo_url)}
                      ELSE entries
    /\ LogCall("error", TRUE)
    /\ UNCHANGED <<pc, repo_url, parent_writable>>
    /\ UNCHANGED <<textVars, treeVars>>

(***************************************************************************)
(* Inputs of clone_repo.                                                   *)
(***************************************************************************)
RepoUrls ==
    { <<"h", "/", "u", "/", "r", "e", "p", "o", ".", "g", "i", "t">>,
      <<"h", "/", "u", "/", "r", "e", "p", "o">>,
      <<"h", "/", "u", "/", "r", "e", "p", "o", "/">>,
      <<"h", "/", "u", "/", "a", ".", "g", "i", "t", "h", "u", "b", ".", "g", "i", "t">> }

S_other_repo == <<"z">>

InitClone ==
    /\ pc = "idle"
    /\ TextIdle
    /\ TreeIdle
    /\ repo_url \in RepoUrls
    /\ out_dir \in {"absent", "dir", "file"}
    /\ parent_writable \in BOOLEAN
    /\ entries \in (IF out_dir = "dir"
                    THEN SUBSET {repo_name_of(repo_url), S_other_repo}
                    ELSE {{}})
    /\ call_log = <<>>

NextClone == CloneRepoRaises \/ CloneRepoExists \/ CloneRepoCloned \/ CloneRepoError

SpecClone == InitClone /\ [][NextClone]_vars

(***************************************************************************)
(* Claims about clone_repo.                                                *)
(***************************************************************************)
\* The target path exists on a disk where output_dir is dir and holds names.
ExistsOnDisk(dir, names) ==
    /\ dir = "dir"
    /\ (repo_name_of(repo_url) = <<>> \/ repo_name_of(repo_url) \in names)

\* The target path exists when the logged call is over.
ExistsAfter(c) == c.outcome # "raised" /\ ExistsOnDisk("dir", c.after)

\* Once the target path exists, every later call gives the "already exists"
\* message, runs no clone and leaves the target as it is; at most one call
\* completes a clone.
OnceExistsAlwaysExists ==
    /\ \A i \in 1..Len(call_log) :
           ExistsOnDisk(call_log[i].dir_before, call_log[i].before) =>
               /\ call_log[i].outcome = "exists"
               /\ ~call_log[i].invoked
               /\ call_log[i].after = call_log[i].before
    /\ \A i \in 1..Len(call_log) : \A j \in 1..Len(call_log) :
           (i < j /\ ExistsAfter(call_log[i])) => call_log[j].outcome = "exists"
    /\ Cardinality({i \in 1..Len(call_log) : call_log[i].outcome = "cloned"}) <= 1

\* C10 (as claimed): the above, and no call raises.
C10_NeverRaises ==
    /\ OnceExistsAlwaysExists
    /\ \A i \in 1..Len(call_log) : call_log[i].outcome # "raised"

\* C10 (amended): the above, and no call raises once os.makedirs has
\* succeeded: a failure of the clone is returned as the error message, and
\* the only exception that leaves clone_repo is that of os.makedirs, for an
\* output_dir that is a file or cannot be created.
C10_RaisesOnlyFromMakedirs ==
    /\ OnceExistsAlwaysExists
    /\ \A i \in 1..Len(call_log) :
           /\ call_log[i].outcome = "raised" <=>
                  (\/ call_log[i].dir_before = "file"
                   \/ call_log[i].dir_before = "absent" /\ ~parent_writable)
           /\ call_log[i].invoked <=> call_log[i].outcome \in {"cloned", "error"}

\* C10 witness: a failed clone that left nothing behind, then a completed
\* clone, then a call that found the target.
C10_Witness ==
    /\ Len(call_log) = 3
    /\ call_log[1].outcome = "error"
    /\ call_log[2].outcome = "cloned"
    /\ call_log[3].outcome = "exists"
    /\ call_log[3].after = call_log[2].after

====
